---- MODULE Spec2Model ----
(***************************************************************************)
(* Bank reconciliation engine of logic.py: identifier extraction, the      *)
(* explode-and-outer-join matcher, the keyword categorizer, the running    *)
(* balance statement and the summary.                                      *)
(*                                                                         *)
(* Texts are TLA+ strings (TLC evaluates Len, SubSeq and \o on them).      *)
(* A spreadsheet cell is a record: t = "str" with its text in s, or        *)
(* t = "nan" for an empty cell (pandas reads it as NaN).  Amounts are      *)
(* integers (cents), so sums are exact.                                    *)
(***************************************************************************)
EXTENDS Integers, Sequences, FiniteSets, TLC

VARIABLES
    libro_file,          \* rows of the book sheet as read by read_excel
    extracto_file,       \* rows of the bank sheet as read by read_excel
    has_saldo,           \* the bank sheet has a running-balance column
    pc,                  \* position inside process_reconciliation
    df_libro,            \* book frame after load_data and the ID columns
    df_extracto,         \* bank frame after load_data and the ID columns
    merged,              \* the outer join with its Matched column
    libro_unmatched,     \* book rows left unmatched, with Categoria
    extracto_unmatched,  \* bank rows left unmatched, with Categoria
    saldo_final_banco,
    saldo_final_libro,
    running_balance,
    reconciliation_rows, \* the statement lines appended so far
    matched_count,
    summary,
    call,                \* pure-function harness: the pending call
    ret                  \* pure-function harness: its result

vars == <<libro_file, extracto_file, has_saldo, pc, df_libro, df_extracto,
          merged, libro_unmatched, extracto_unmatched, saldo_final_banco,
          saldo_final_libro, running_balance, reconciliation_rows,
          matched_count, summary, call, ret>>

pipeline_vars == <<libro_file, extracto_file, has_saldo, pc, df_libro,
                   df_extracto, merged, libro_unmatched, extracto_unmatched,
                   saldo_final_banco, saldo_final_libro, running_balance,
                   reconciliation_rows, matched_count, summary>>

-----------------------------------------------------------------------------
(* Bounds of the model. *)

\* most rows in the book sheet
MaxLibro == 2
\* most rows in the bank sheet
MaxExtracto == 2
\* most fragments concatenated into a description given to the categorizer
MaxFrag == 2

-----------------------------------------------------------------------------
(* Cells and text helpers. *)

NaN == [t |-> "nan", s |-> ""]

Str(text) == [t |-> "str", s |-> text]

Char(text, i) == SubSeq(text, i, i)

Digits == {"0", "1", "2", "3", "4", "5", "6", "7", "8", "9"}

\* str.strip() removes leading and trailing whitespace
Whitespace == {" ", "\t", "\n", "\r"}

RECURSIVE LStrip(_)
LStrip(text) ==
    IF Len(text) > 0 /\ Char(text, 1) \in Whitespace
    THEN LStrip(SubSeq(text, 2, Len(text)))
    ELSE text

RECURSIVE RStrip(_)
RStrip(text) ==
    IF Len(text) > 0 /\ Char(text, Len(text)) \in Whitespace
    THEN RStrip(SubSeq(text, 1, Len(text) - 1))
    ELSE text

Strip(text) == RStrip(LStrip(text))

UpperChars == <<"A", "B", "C", "D", "E", "F", "G", "H", "I", "J", "K", "L",
                "M", "N", "O", "P", "Q", "R", "S", "T", "U", "V", "W", "X",
                "Y", "Z", "Á", "É", "Í", "Ó", "Ú", "Ñ">>

LowerChars == <<"a", "b", "c", "d", "e", "f", "g", "h", "i", "j", "k", "l",
                "m", "n", "o", "p", "q", "r", "s", "t", "u", "v", "w", "x",
                "y", "z", "á", "é", "í", "ó", "ú", "ñ">>

LowerChar(c) ==
    IF \E k \in DOMAIN UpperChars : UpperChars[k] = c
    THEN LowerChars[CHOOSE k \in DOMAIN UpperChars : UpperChars[k] = c]
    ELSE c

RECURSIVE Lower(_)
Lower(text) ==
    IF Len(text) = 0 THEN ""
    ELSE LowerChar(Char(text, 1)) \o Lower(SubSeq(text, 2, Len(text)))

\* Python's  keyword in text
Contains(keyword, text) ==
    \E i \in 1..(Len(text) - Len(keyword) + 1) :
        SubSeq(text, i, i + Len(keyword) - 1) = keyword

\* str(value) of a cell: the text itself, or 'nan' for an empty cell;
\* Series.astype(str) gives the same
AsStr(cell) == IF cell.t = "str" THEN cell.s ELSE "nan"

RECURSIVE SumSeq(_)
SumSeq(ns) == IF ns = <<>> THEN 0 ELSE Head(ns) + SumSeq(Tail(ns))

Abs(n) == IF n < 0 THEN -n ELSE n

-----------------------------------------------------------------------------
(* clean_amount. A float is the decimal mant / 10^scale with no trailing
   zero in its fraction, so that equal numbers are equal records. *)

\* a numeric cell (int or float) holding mant / 10^scale
Num(mant, scale) == [t |-> "num", s |-> "", mant |-> mant, scale |-> scale]

\* a cell holding a value that is neither null, number nor text (a date)
Obj == [t |-> "obj", s |-> ""]

RECURSIVE Float(_, _)
Float(mant, scale) ==
    IF scale > 0 /\ mant % 10 = 0
    THEN Float(mant \div 10, scale - 1)
    ELSE [mant |-> mant, scale |-> scale]

DigitChars == <<"0", "1", "2", "3", "4", "5", "6", "7", "8", "9">>

DigitValue(c) == (CHOOSE k \in DOMAIN DigitChars : DigitChars[k] = c) - 1

RECURSIVE StrToNat(_)
StrToNat(digits) ==
    IF Len(digits) = 0 THEN 0
    ELSE StrToNat(SubSeq(digits, 1, Len(digits) - 1)) * 10
         + DigitValue(Char(digits, Len(digits)))

\* str.replace(old, new) for a one-character old
RECURSIVE Replace(_, _, _)
Replace(text, old, new) ==
    IF Len(text) = 0 THEN ""
    ELSE (IF Char(text, 1) = old THEN new ELSE Char(text, 1))
         \o Replace(SubSeq(text, 2, Len(text)), old, new)

Returned(value) == [raised |-> "", value |-> value]

Raised(exception) == [raised |-> exception, value |-> Float(0, 0)]

\* float(text): surrounding whitespace is dropped, then an optional sign and
\* a decimal numeral with at most one point and at least one digit; anything
\* else raises ValueError.  (float also reads 'nan', 'inf', 'infinity',
\* exponents and '_' between digits: no text used here spells one.)
python_float(text) ==
    LET stripped == Strip(text)
        signed == Len(stripped) > 0 /\ Char(stripped, 1) \in {"+", "-"}
        numeral == IF signed THEN SubSeq(stripped, 2, Len(stripped)) ELSE stripped
        points == { i \in 1..Len(numeral) : Char(numeral, i) = "." }
        digits == { i \in 1..Len(numeral) : Char(numeral, i) \in Digits }
    IN  IF Cardinality(points) <= 1 /\ digits # {}
           /\ points \cup digits = 1..Len(numeral)
        THEN LET point == IF points = {} THEN Len(numeral) + 1
                          ELSE CHOOSE i \in points : TRUE
                 mant == StrToNat(SubSeq(numeral, 1, point - 1)
                                  \o SubSeq(numeral, point + 1, Len(numeral)))
                 scale == IF points = {} THEN 0 ELSE Len(numeral) - point
             IN  Returned(Float(IF Char(stripped, 1) = "-" THEN -mant ELSE mant,
                                scale))
        ELSE Raised("ValueError")

\* the two replacements in the other order
clean_amount_comma_first(val) ==
    IF val.t = "nan" THEN Returned(Float(0, 0))
    ELSE IF val.t = "num" THEN Returned(Float(val.mant, val.scale))
    ELSE IF val.t = "str"
         THEN LET rewritten == Replace(Replace(val.s, ",", "."), ".", "")
                  parsed == python_float(rewritten)
              IN  IF parsed.raised = "ValueError"
                  THEN Returned(Float(0, 0))
                  ELSE parsed
    ELSE Returned(Float(0, 0))

clean_amount(val) ==
    IF val.t = "nan" THEN Returned(Float(0, 0))
    ELSE IF val.t = "num" THEN Returned(Float(val.mant, val.scale))
    ELSE IF val.t = "str"
         THEN LET rewritten == Replace(Replace(val.s, ".", ""), ",", ".")
                  parsed == python_float(rewritten)
              IN  IF parsed.raised = "ValueError"
                  THEN Returned(Float(0, 0))
                  ELSE parsed
    ELSE Returned(Float(0, 0))

-----------------------------------------------------------------------------
(* extract_check_numbers: re.findall(r'\((\d+)\)', text) *)

\* first index at or after i that holds no digit (Len+1 when none)
RECURSIVE DigitRunEnd(_, _)
DigitRunEnd(text, i) ==
    IF i <= Len(text) /\ Char(text, i) \in Digits
    THEN DigitRunEnd(text, i + 1)
    ELSE i

RECURSIVE FindAllChecks(_, _)
FindAllChecks(text, i) ==
    IF i > Len(text) THEN <<>>
    ELSE IF Char(text, i) = "("
         THEN LET j == DigitRunEnd(text, i + 1)
              IN  IF j > i + 1 /\ j <= Len(text) /\ Char(text, j) = ")"
                  THEN <<SubSeq(text, i + 1, j - 1)>> \o FindAllChecks(text, j + 1)
                  ELSE FindAllChecks(text, i + 1)
         ELSE FindAllChecks(text, i + 1)

\* the identifiers with repeated ones dropped
extract_check_numbers_unique(cell) ==
    IF cell.t # "str" THEN <<>>
    ELSE LET found == FindAllChecks(cell.s, 1)
             keep == { k \in DOMAIN found :
                         \A m \in 1..(k - 1) : found[m] # found[k] }
         IN  [n \in 1..Cardinality(keep) |->
                 found[CHOOSE k \in keep :
                           Cardinality({ m \in keep : m < k }) = n - 1]]

extract_check_numbers(cell) ==
    IF cell.t # "str" THEN <<>> ELSE FindAllChecks(cell.s, 1)

-----------------------------------------------------------------------------
(* categorize_difference *)

\* dict literals keep insertion order: <<keyword, subcategory>>
permanent_keywords == <<
    <<"comision", "Comisiones">>,
    <<"impuesto", "Impuestos y percepciones">>,
    <<"imp.", "Impuestos y percepciones">>,
    <<"percep", "Impuestos y percepciones">>,
    <<"debito automatico", "Débito automático">>,
    <<"debito autom", "Débito automático">>,
    <<"sueldo", "Sueldos y cargas sociales">>,
    <<"carga social", "Sueldos y cargas sociales">>,
    <<"rechazo", "Cheques rechazados">>,
    <<"devuelto", "Cheques rechazados">>,
    <<"anulacion", "Anulaciones">>,
    <<"ley 25413", "Impuestos y percepciones">>,
    <<"ing. bruto", "Impuestos y percepciones">>,
    <<"ingresos brutos", "Impuestos y percepciones">> >>

temporary_keywords == <<
    <<"acreditacion", "Acreditaciones en tránsito">>,
    <<"transferencia", "Transferencias transitorias">>,
    <<"transito", "Depósitos en tránsito">>,
    <<"tránsito", "Depósitos en tránsito">>,
    <<"en tránsito", "Depósitos en tránsito">>,
    <<"en transito", "Depósitos en tránsito">>,
    <<"prisma", "Acreditaciones tarjetas">>,
    <<"tarjeta", "Acreditaciones tarjetas">> >>

\* the for loop over table.items(): index of the first keyword found in
\* descripcion at or after k, 0 when the loop ends without a return
RECURSIVE LastKeyword(_, _, _)
LastKeyword(table, descripcion, k) ==
    IF k > Len(table) THEN 0
    ELSE LET later == LastKeyword(table, descripcion, k + 1)
         IN  IF later # 0 THEN later
             ELSE IF Contains(table[k][1], descripcion) THEN k ELSE 0

RECURSIVE FirstKeyword(_, _, _)
FirstKeyword(table, descripcion, k) ==
    IF k > Len(table) THEN 0
    ELSE IF Contains(table[k][1], descripcion) THEN k
         ELSE FirstKeyword(table, descripcion, k + 1)

Categoria(category, subcategory, requires_accounting_entry, is_temporary) ==
    [category |-> category,
     subcategory |-> subcategory,
     requires_accounting_entry |-> requires_accounting_entry,
     is_temporary |-> is_temporary]

\* the temporal loop returning the flags of the permanent loop
categorize_flags_copied(descripcion_cell, source) ==
    LET descripcion == Lower(AsStr(descripcion_cell))
        p == FirstKeyword(permanent_keywords, descripcion, 1)
        t == FirstKeyword(temporary_keywords, descripcion, 1)
    IN  IF p # 0 THEN Categoria("Permanente", permanent_keywords[p][2], TRUE, FALSE)
        ELSE IF t # 0 THEN Categoria("Temporal", temporary_keywords[t][2], TRUE, FALSE)
        ELSE IF source = "libro"
             THEN Categoria("Temporal", "Depósitos en tránsito", FALSE, TRUE)
             ELSE Categoria("Permanente", "Notas de débito/crédito omitidas", TRUE, FALSE)

categorize_temporal_first(descripcion_cell, source) ==
    LET descripcion == Lower(AsStr(descripcion_cell))
        p == FirstKeyword(permanent_keywords, descripcion, 1)
        t == FirstKeyword(temporary_keywords, descripcion, 1)
    IN  IF t # 0 THEN Categoria("Temporal", temporary_keywords[t][2], FALSE, TRUE)
        ELSE IF p # 0 THEN Categoria("Permanente", permanent_keywords[p][2], TRUE, FALSE)
        ELSE IF source = "libro"
             THEN Categoria("Temporal", "Depósitos en tránsito", FALSE, TRUE)
             ELSE Categoria("Permanente", "Notas de débito/crédito omitidas", TRUE, FALSE)

categorize_default_swapped(descripcion_cell, source) ==
    LET descripcion == Lower(AsStr(descripcion_cell))
        p == FirstKeyword(permanent_keywords, descripcion, 1)
        t == FirstKeyword(temporary_keywords, descripcion, 1)
    IN  IF p # 0 THEN Categoria("Permanente", permanent_keywords[p][2], TRUE, FALSE)
        ELSE IF t # 0 THEN Categoria("Temporal", temporary_keywords[t][2], FALSE, TRUE)
        ELSE IF source = "extracto"
             THEN Categoria("Temporal", "Depósitos en tránsito", FALSE, TRUE)
             ELSE Categoria("Permanente", "Notas de débito/crédito omitidas", TRUE, FALSE)

\* descripcion_cell is row.get('Descripcion', row.get('Concepto', ''))
categorize_difference(descripcion_cell, source) ==
    LET descripcion == Lower(AsStr(descripcion_cell))
        p == FirstKeyword(permanent_keywords, descripcion, 1)
        t == FirstKeyword(temporary_keywords, descripcion, 1)
    IN  IF p # 0 THEN Categoria("Permanente", permanent_keywords[p][2], TRUE, FALSE)
        ELSE IF t # 0 THEN Categoria("Temporal", temporary_keywords[t][2], FALSE, TRUE)
        ELSE IF source = "libro"
             THEN Categoria("Temporal", "Depósitos en tránsito", FALSE, TRUE)
             ELSE Categoria("Permanente", "Notas de débito/crédito omitidas", TRUE, FALSE)

-----------------------------------------------------------------------------
(* Inputs: the rows the two sheets may hold. *)

LibroRow(concepto, ingreso, egreso) ==
    [Concepto |-> concepto, Ingreso |-> ingreso, Egreso |-> egreso]

ExtractoRow(comprobante, descripcion, creditos, debitos, saldo) ==
    [Comprobante |-> comprobante, Descripcion |-> descripcion,
     Creditos |-> creditos, Debitos |-> debitos, Saldo |-> saldo]

LibroPool ==
    { LibroRow(Str("Cheques de terceros (100)(200)"), 1000, 0),
      LibroRow(Str("Deposito cliente X"), 500, 0),
      LibroRow(Str("Comision bancaria (0123)"), 0, 50),
      LibroRow(Str("Transferencia a cuenta (123)"), 0, 80),
      LibroRow(NaN, 70, 0) }

ExtractoPool ==
    { ExtractoRow(Str("100"), Str("Cobro cheque"), 400, 0, 400),
      ExtractoRow(Str("200"), Str("Cobro cheque"), 600, 0, 1000),
      ExtractoRow(NaN, Str("Comision mantenimiento cuenta"), 0, 50, 950),
      ExtractoRow(Str(" 123 "), Str("Pago cheque"), 0, 80, 870),
      ExtractoRow(Str("999"), Str("Transferencia emitida"), 0, 30, 930),
      ExtractoRow(NaN, NaN, 25, 0, 955) }

SeqsUpTo(S, n) == UNION { [1..k -> S] : k \in 0..n }

-----------------------------------------------------------------------------
(* load_data and the ID columns. *)

\* DataFrame.index of a freshly read sheet is 0, 1, 2, ...
load_libro(rows) ==
    [k \in DOMAIN rows |->
        [Libro_ID |-> k - 1,
         Concepto |-> rows[k].Concepto,
         Monto_Libro |-> rows[k].Ingreso - rows[k].Egreso,
         Cheques_Extraidos |-> <<>>]]

load_extracto(rows) ==
    [k \in DOMAIN rows |->
        [Banco_ID |-> k - 1,
         Comprobante |-> rows[k].Comprobante,
         Descripcion |-> rows[k].Descripcion,
         Monto_Banco |-> rows[k].Creditos - rows[k].Debitos,
         Saldo |-> rows[k].Saldo,
         check_match_id |-> ""]]

-----------------------------------------------------------------------------
(* The columns load_data and process_reconciliation need. A sheet is the
   sequence of its header names. *)

LibroHeaders == <<"Fecha Pago ", "Concepto", "Ingreso", "Egreso">>

ExtractoHeaders == <<"Fecha", "Fecha Valor", "Descripción",
                     "Número de Comprobante", "CRÉDITOS", "Débitos", "Saldo">>

\* the headers of a template that a sheet kept, in the template's order
RECURSIVE Kept(_, _, _)
Kept(template, keep, k) ==
    IF k > Len(template) THEN <<>>
    ELSE (IF k \in keep THEN <<template[k]>> ELSE <<>>)
         \o Kept(template, keep, k + 1)

Sheets(template) == { Kept(template, keep, 1) : keep \in SUBSET DOMAIN template }

HasColumn(columns, name) == \E k \in DOMAIN columns : columns[k] = name

\* col_map: the new name of one bank column, the column itself when unmapped
renamed_column(col, fecha_mapped) ==
    LET col_lower == Lower(col)
    IN  IF \/ Contains("créditos", col_lower)
           \/ Contains("creditos", col_lower)
           \/ Contains("crditos", col_lower)
        THEN "Creditos"
        ELSE IF \/ Contains("débitos", col_lower)
                \/ Contains("debitos", col_lower)
                \/ Contains("dbitos", col_lower)
        THEN "Debitos"
        ELSE IF \/ Contains("numero de comprobante", col_lower)
                \/ Contains("número de comprobante", col_lower)
        THEN "Numero de Comprobante"
        ELSE IF Contains("fecha", col_lower) /\ ~fecha_mapped
        THEN "Fecha"
        ELSE IF Contains("descripci", col_lower)
        THEN "Descripcion"
        ELSE IF Contains("saldo", col_lower)
        THEN "Saldo"
        ELSE col

RECURSIVE rename_columns(_, _)
rename_columns(columns, fecha_mapped) ==
    IF columns = <<>> THEN <<>>
    ELSE LET name == renamed_column(Head(columns), fecha_mapped)
         IN  <<name>> \o rename_columns(Tail(columns),
                                        fecha_mapped \/ name = "Fecha")

\* df['name'] of a column the frame lacks raises KeyError('name'), and
\* str(KeyError('name')) is the quoted name
KeyError(name) ==
    [raised |-> "KeyError", message |-> "'" \o name \o "'",
     libro |-> <<>>, extracto |-> <<>>, report |-> FALSE]

Columns(libro, extracto, report) ==
    [raised |-> "", message |-> "", libro |-> libro, extracto |-> extracto,
     report |-> report]

load_data(libro_columns, extracto_columns) ==
    LET renamed == rename_columns(extracto_columns, FALSE)
    IN  IF ~HasColumn(libro_columns, "Ingreso") THEN KeyError("Ingreso")
        ELSE IF ~HasColumn(libro_columns, "Egreso") THEN KeyError("Egreso")
        ELSE IF ~HasColumn(libro_columns, "Fecha Pago ") THEN KeyError("Fecha Pago ")
        ELSE IF ~HasColumn(renamed, "Fecha") THEN KeyError("Fecha")
        ELSE Columns(libro_columns \o <<"Ingreso_Clean", "Egreso_Clean", "Monto_Libro">>,
                     renamed \o <<"Creditos_Clean", "Debitos_Clean", "Monto_Banco">>,
                     FALSE)

\* process_reconciliation as far as its columns go: load_data, the ID
\* columns, then the two columns the matcher reads; nothing later reads a
\* column that may be absent
process_columns(libro_columns, extracto_columns) ==
    LET loaded == load_data(libro_columns, extracto_columns)
    IN  IF loaded.raised # "" THEN loaded
        ELSE IF ~HasColumn(loaded.libro, "Concepto") THEN KeyError("Concepto")
        ELSE IF ~HasColumn(loaded.extracto, "Numero de Comprobante")
        THEN KeyError("Numero de Comprobante")
        ELSE Columns(loaded.libro \o <<"Libro_ID", "Cheques_Extraidos">>,
                     loaded.extracto \o <<"Banco_ID", "check_match_id">>,
                     TRUE)

-----------------------------------------------------------------------------
(* The matcher: explode, key columns, outer merge. *)

\* DataFrame.explode: one row per list element, one row holding NaN for an
\* empty list
RECURSIVE explode_list(_, _)
explode_list(id, checks) ==
    IF checks = <<>> THEN <<>>
    ELSE <<[Libro_ID |-> id, Cheques_Extraidos |-> Str(Head(checks))]>>
         \o explode_list(id, Tail(checks))

\* df_libro['Concepto'].apply(extract_check_numbers)
with_checks(libro) ==
    [k \in DOMAIN libro |->
        [libro[k] EXCEPT !.Cheques_Extraidos = extract_check_numbers(libro[k].Concepto)]]

RECURSIVE explode(_)
explode(libro) ==
    IF libro = <<>> THEN <<>>
    ELSE LET r == Head(libro)
             checks == r.Cheques_Extraidos
         IN  (IF checks = <<>>
              THEN <<[Libro_ID |-> r.Libro_ID, Cheques_Extraidos |-> NaN]>>
              ELSE explode_list(r.Libro_ID, checks))
             \o explode(Tail(libro))

match_id_unstripped(cell) == AsStr(cell)

\* .astype(str).str.strip()
match_id(cell) == Strip(AsStr(cell))

with_match_id(frame, column) ==
    [k \in DOMAIN frame |->
        [frame[k] EXCEPT !.check_match_id = match_id(frame[k][column])]]

exploded_keys(exploded) ==
    [k \in DOMAIN exploded |->
        [Libro_ID |-> exploded[k].Libro_ID,
         check_match_id |-> match_id(exploded[k].Cheques_Extraidos)]]

\* a merged row; an ID absent on one side is <<>> (NaN in the frame)
MergedRow(libro_id, banco_id, key, indicator) ==
    [Libro_ID |-> libro_id, Banco_ID |-> banco_id, check_match_id |-> key,
     _merge |-> indicator, Matched |-> (indicator = "both")]

RECURSIVE merge_left(_, _)
merge_left(left, right) ==
    IF left = <<>> THEN <<>>
    ELSE LET l == Head(left)
             hits == SelectSeq(right, LAMBDA b : b.check_match_id = l.check_match_id)
         IN  (IF hits = <<>>
              THEN <<MergedRow(<<l.Libro_ID>>, <<>>, l.check_match_id, "left_only")>>
              ELSE [k \in DOMAIN hits |->
                       MergedRow(<<l.Libro_ID>>, <<hits[k].Banco_ID>>,
                                 l.check_match_id, "both")])
             \o merge_left(Tail(left), right)

merge_right_only(left, right) ==
    LET orphans == SelectSeq(right,
                     LAMBDA b : \A k \in DOMAIN left :
                                   left[k].check_match_id # b.check_match_id)
    IN  [k \in DOMAIN orphans |->
            MergedRow(<<>>, <<orphans[k].Banco_ID>>, orphans[k].check_match_id,
                      "right_only")]

\* pd.merge(..., how='outer', indicator=True); the order of the merged rows
\* is not observed by the statement or the summary
merge_outer(left, right) == merge_left(left, right) \o merge_right_only(left, right)

-----------------------------------------------------------------------------
(* Unmatched rows and their categories. *)

banco_matched_ids(m) ==
    { m[k].Banco_ID[1] : k \in { j \in DOMAIN m : m[j].Matched /\ m[j].Banco_ID # <<>> } }

libro_all_matched_ids(m) ==
    { id \in { m[k].Libro_ID[1] : k \in { j \in DOMAIN m : m[j].Libro_ID # <<>> } } :
        \A k \in DOMAIN m : m[k].Libro_ID = <<id>> => m[k].Matched }

\* merged[merged['Matched']]['Libro_ID'].dropna().unique()
libro_matched_ids(m) ==
    { m[k].Libro_ID[1] : k \in { j \in DOMAIN m : m[j].Matched /\ m[j].Libro_ID # <<>> } }

categorize_extracto(frame) ==
    [k \in DOMAIN frame |->
        [Banco_ID |-> frame[k].Banco_ID,
         Descripcion |-> frame[k].Descripcion,
         Monto_Banco |-> frame[k].Monto_Banco,
         check_match_id |-> frame[k].check_match_id,
         Categoria |-> categorize_difference(frame[k].Descripcion, "extracto")]]

\* every book row categorized by the description of the first row
categorize_libro_first_row(frame) ==
    [k \in DOMAIN frame |->
        [Libro_ID |-> frame[k].Libro_ID,
         Concepto |-> frame[k].Concepto,
         Monto_Libro |-> frame[k].Monto_Libro,
         Categoria |-> categorize_difference(frame[1].Concepto, "libro")]]

\* the book frame has no 'Descripcion' column: row.get falls back to 'Concepto'
categorize_libro(frame) ==
    [k \in DOMAIN frame |->
        [Libro_ID |-> frame[k].Libro_ID,
         Concepto |-> frame[k].Concepto,
         Monto_Libro |-> frame[k].Monto_Libro,
         Categoria |-> categorize_difference(frame[k].Concepto, "libro")]]

-----------------------------------------------------------------------------
(* The statement lines.  A line keeps columns 1, 2, 5, 9 and 10 of the code's *)
(* row (Signo, Concepto principal, CONCEPTO, Monto, Saldo Acumulado); an    *)
(* empty cell '' is <<>>, a number n is <<n>>.  lado and ids record which   *)
(* rows the loop that appended the line was iterating over.                 *)

Line(signo, principal, concepto, monto, saldo, lado, ids) ==
    [Signo |-> signo, Principal |-> principal, CONCEPTO |-> concepto,
     Monto |-> monto, Saldo |-> saldo, lado |-> lado, ids |-> ids]

Heading(signo, principal) == Line(signo, principal, "", <<>>, <<>>, "", {})

\* the description cut of the item lines
MaxConcepto == 80

Cut(text) == IF Len(text) > MaxConcepto THEN SubSeq(text, 1, MaxConcepto) ELSE text

\* groupby sorts its keys: the subcategory labels in Python string order
SubcatSorted == <<"Acreditaciones en tránsito", "Acreditaciones tarjetas",
                  "Anulaciones", "Cheques rechazados", "Comisiones",
                  "Depósitos en tránsito", "Débito automático",
                  "Impuestos y percepciones",
                  "Notas de débito/crédito omitidas",
                  "Sueldos y cargas sociales", "Transferencias transitorias">>

\* what a section hands on: the lines it appended and the balance after them
Out(rows, bal) == [rows |-> rows, bal |-> bal]

\* for _, row in group.iterrows(): running_balance += row['Monto_Libro']
RECURSIVE libro_item_lines(_, _)
libro_item_lines(group, bal) ==
    IF group = <<>> THEN Out(<<>>, bal)
    ELSE LET row == Head(group)
             monto == row.Monto_Libro
             rest == libro_item_lines(Tail(group), bal + monto)
         IN  Out(<<Line("", "", Cut(row.Concepto.s), <<monto>>, <<bal + monto>>,
                        "libro", {row.Libro_ID})>> \o rest.rows,
                 rest.bal)

\* for _, row in group.iterrows(): running_balance += row['Monto_Banco']
RECURSIVE extracto_item_lines(_, _)
extracto_item_lines(group, bal) ==
    IF group = <<>> THEN Out(<<>>, bal)
    ELSE LET row == Head(group)
             monto == row.Monto_Banco
             rest == extracto_item_lines(Tail(group), bal + monto)
         IN  Out(<<Line("", "", Cut(row.Descripcion.s), <<monto>>, <<bal + monto>>,
                        "banco", {row.Banco_ID})>> \o rest.rows,
                 rest.bal)

\* every temporal book-side row, whatever its subcategory
depositos_all_temporal(lu) ==
    SelectSeq(lu, LAMBDA r : r.Categoria.is_temporary)

\* section 1: book-side deposits in transit
depositos_transito(lu) ==
    SelectSeq(lu, LAMBDA r : r.Categoria.is_temporary
                             /\ r.Categoria.subcategory = "Depósitos en tránsito")

depositos_lines(lu, bal) ==
    LET sel == depositos_transito(lu)
        items == libro_item_lines(sel, bal)
    IN  IF sel = <<>> THEN Out(<<>>, bal)
        ELSE Out(<<Heading("+", "Depósitos en tránsito")>> \o items.rows, items.bal)

\* section 2: other temporal book-side rows, one heading per subcategory
otras_temp_libro(lu) ==
    SelectSeq(lu, LAMBDA r : r.Categoria.is_temporary
                             /\ r.Categoria.subcategory # "Depósitos en tránsito")

RECURSIVE libro_group_lines(_, _, _)
libro_group_lines(sel, k, bal) ==
    IF k > Len(SubcatSorted) THEN Out(<<>>, bal)
    ELSE LET group == SelectSeq(sel, LAMBDA r : r.Categoria.subcategory = SubcatSorted[k])
             items == libro_item_lines(group, bal)
             rest == libro_group_lines(sel, k + 1, items.bal)
         IN  IF group = <<>> THEN libro_group_lines(sel, k + 1, bal)
             ELSE Out(<<Heading("+", SubcatSorted[k])>> \o items.rows \o rest.rows,
                      rest.bal)

\* section 3: temporal bank-side rows, one heading per subcategory
temp_extracto(eu) == SelectSeq(eu, LAMBDA r : r.Categoria.is_temporary)

RECURSIVE extracto_group_lines(_, _, _, _)
extracto_group_lines(sel, k, bal, headings) ==
    IF k > Len(SubcatSorted) THEN Out(<<>>, bal)
    ELSE LET group == SelectSeq(sel, LAMBDA r : r.Categoria.subcategory = SubcatSorted[k])
             items == extracto_item_lines(group, bal)
             rest == extracto_group_lines(sel, k + 1, items.bal, headings)
             head == IF headings THEN <<Heading("+", SubcatSorted[k])>> ELSE <<>>
         IN  IF group = <<>> THEN extracto_group_lines(sel, k + 1, bal, headings)
             ELSE Out(head \o items.rows \o rest.rows, rest.bal)

\* section 4: permanent bank credits, itemized under one heading
creditos_no_registrados(eu) ==
    SelectSeq(eu, LAMBDA r : ~r.Categoria.is_temporary /\ r.Monto_Banco > 0)

creditos_lines(eu, bal) ==
    LET sel == creditos_no_registrados(eu)
        items == extracto_group_lines(sel, 1, bal, FALSE)
    IN  IF sel = <<>> THEN Out(<<>>, bal)
        ELSE Out(<<Heading("+", "Notas de crédito omitidas por la empresa")>>
                 \o items.rows, items.bal)

\* every bank debit, whatever its category
debitos_todos(eu) ==
    SelectSeq(eu, LAMBDA r : r.Monto_Banco < 0)

\* section 5: permanent bank debits, one total line per subcategory
debitos_no_registrados(eu) ==
    SelectSeq(eu, LAMBDA r : ~r.Categoria.is_temporary /\ r.Monto_Banco < 0)

RECURSIVE debito_total_lines(_, _, _)
debito_total_lines(sel, k, bal) ==
    IF k > Len(SubcatSorted) THEN Out(<<>>, bal)
    ELSE LET group == SelectSeq(sel, LAMBDA r : r.Categoria.subcategory = SubcatSorted[k])
             total_grupo == SumSeq([j \in DOMAIN group |-> group[j].Monto_Banco])
             rest == debito_total_lines(sel, k + 1, bal + total_grupo)
         IN  IF group = <<>> THEN debito_total_lines(sel, k + 1, bal)
             ELSE Out(<<Line("", "", SubcatSorted[k], <<total_grupo>>,
                             <<bal + total_grupo>>, "banco",
                             { group[j].Banco_ID : j \in DOMAIN group })>>
                      \o rest.rows,
                      rest.bal)

\* the debits listed one line per entry, as the credits are
debitos_lines_itemized(eu, bal) ==
    LET sel == debitos_no_registrados(eu)
        items == extracto_group_lines(sel, 1, bal, FALSE)
    IN  IF sel = <<>> THEN Out(<<>>, bal)
        ELSE Out(<<Heading("+", "Notas de débito omitidas por la empresa")>>
                 \o items.rows, items.bal)

debitos_lines(eu, bal) ==
    LET sel == debitos_no_registrados(eu)
        items == debito_total_lines(sel, 1, bal)
    IN  IF sel = <<>> THEN Out(<<>>, bal)
        ELSE Out(<<Heading("+", "Notas de débito omitidas por la empresa")>>
                 \o items.rows, items.bal)

\* the pending checks without the test against 'nan'
cheques_pendientes_con_nan(eu) ==
    SelectSeq(eu, LAMBDA r : r.check_match_id # "" /\ r.Monto_Banco < 0)

\* section 6: pending checks
cheques_pendientes(eu) ==
    SelectSeq(eu, LAMBDA r : r.check_match_id # "" /\ r.check_match_id # "nan"
                             /\ r.Monto_Banco < 0)

RECURSIVE cheque_lines_stale(_, _)
cheque_lines_stale(sel, bal) ==
    IF sel = <<>> THEN Out(<<>>, bal)
    ELSE LET row == Head(sel)
             monto == Abs(row.Monto_Banco)
             rest == cheque_lines_stale(Tail(sel), bal - monto)
         IN  Out(<<Line("", "", "Cheque " \o row.check_match_id, <<monto>>,
                        <<bal>>, "banco", {row.Banco_ID})>> \o rest.rows,
                 rest.bal)

\* for _, row in cheques_pendientes.iterrows(): running_balance -= abs(monto)
RECURSIVE cheque_lines(_, _)
cheque_lines(sel, bal) ==
    IF sel = <<>> THEN Out(<<>>, bal)
    ELSE LET row == Head(sel)
             monto == Abs(row.Monto_Banco)
             rest == cheque_lines(Tail(sel), bal - monto)
         IN  Out(<<Line("", "", "Cheque " \o row.check_match_id, <<monto>>,
                        <<bal - monto>>, "banco", {row.Banco_ID})>> \o rest.rows,
                 rest.bal)

-----------------------------------------------------------------------------
(* process_reconciliation, step by step. *)

NoCall == [fn |-> "none", row |-> NaN, source |-> ""]

EmptySummary ==
    [saldo_final_banco |-> 0, saldo_final_libro |-> 0, diferencia_total |-> 0,
     items_coinciden |-> 0, diferencias_temporales_count |-> 0,
     diferencias_permanentes_count |-> 0, diferencias_temporales_monto |-> 0,
     diferencias_permanentes_monto |-> 0]

Init ==
    /\ libro_file \in SeqsUpTo(LibroPool, MaxLibro)
    /\ extracto_file \in SeqsUpTo(ExtractoPool, MaxExtracto)
    /\ has_saldo \in BOOLEAN
    /\ pc = "start"
    /\ df_libro = <<>>
    /\ df_extracto = <<>>
    /\ merged = <<>>
    /\ libro_unmatched = <<>>
    /\ extracto_unmatched = <<>>
    /\ saldo_final_banco = 0
    /\ saldo_final_libro = 0
    /\ running_balance = 0
    /\ reconciliation_rows = <<>>
    /\ matched_count = 0
    /\ summary = EmptySummary
    /\ call = NoCall
    /\ ret = <<>>

\* load_data, then the Libro_ID / Banco_ID columns
LoadData ==
    /\ pc = "start"
    /\ df_libro' = load_libro(libro_file)
    /\ df_extracto' = load_extracto(extracto_file)
    /\ pc' = "loaded"
    /\ UNCHANGED <<libro_file, extracto_file, has_saldo, merged, libro_unmatched,
                   extracto_unmatched, saldo_final_banco, saldo_final_libro,
                   running_balance, reconciliation_rows, matched_count, summary,
                   call, ret>>

\* extract the check numbers, explode, build both key columns, merge
Match ==
    /\ pc = "loaded"
    /\ df_libro' = with_checks(df_libro)
    /\ df_extracto' = with_match_id(df_extracto, "Comprobante")
    /\ merged' = merge_outer(exploded_keys(explode(df_libro')), df_extracto')
    /\ pc' = "merged"
    /\ UNCHANGED <<libro_file, extracto_file, has_saldo, libro_unmatched,
                   extracto_unmatched, saldo_final_banco, saldo_final_libro,
                   running_balance, reconciliation_rows, matched_count, summary,
                   call, ret>>

CategorizeUnmatched ==
    /\ pc = "merged"
    /\ extracto_unmatched' =
         categorize_extracto(
           SelectSeq(df_extracto, LAMBDA r : r.Banco_ID \notin banco_matched_ids(merged)))
    /\ libro_unmatched' =
         categorize_libro(
           SelectSeq(df_libro, LAMBDA r : r.Libro_ID \notin libro_matched_ids(merged)))
    /\ pc' = "categorized"
    /\ UNCHANGED <<libro_file, extracto_file, has_saldo, df_libro, df_extracto,
                   merged, saldo_final_banco, saldo_final_libro, running_balance,
                   reconciliation_rows, matched_count, summary, call, ret>>

\* .iloc[-1] of an empty column raises IndexError
EndingBalances ==
    /\ pc = "categorized"
    /\ IF has_saldo /\ df_extracto = <<>>
       THEN /\ pc' = "error"
            /\ UNCHANGED <<saldo_final_banco, saldo_final_libro>>
       ELSE /\ saldo_final_banco' =
                 (IF has_saldo
                  THEN df_extracto[Len(df_extracto)].Saldo
                  ELSE SumSeq([k \in DOMAIN df_extracto |-> df_extracto[k].Monto_Banco]))
            /\ saldo_final_libro' =
                 SumSeq([k \in DOMAIN df_libro |-> df_libro[k].Monto_Libro])
            /\ pc' = "balances"
    /\ UNCHANGED <<libro_file, extracto_file, has_saldo, df_libro, df_extracto,
                   merged, libro_unmatched, extracto_unmatched, running_balance,
                   reconciliation_rows, matched_count, summary, call, ret>>

\* the title row, the column headers and the starting balance
StatementHead ==
    /\ pc = "balances"
    /\ running_balance' = saldo_final_banco
    /\ reconciliation_rows' =
         << Line("", "Conciliación Bancaria", "", <<>>, <<>>, "", {}),
            Line("", "", "CONCEPTO", <<>>, <<saldo_final_banco>>, "", {}),
            Line("", "Saldo final Banco", "", <<>>, <<saldo_final_banco>>, "", {}) >>
    /\ pc' = "head"
    /\ UNCHANGED <<libro_file, extracto_file, has_saldo, df_libro, df_extracto,
                   merged, libro_unmatched, extracto_unmatched, saldo_final_banco,
                   saldo_final_libro, matched_count, summary, call, ret>>

\* sections 1 to 3; len(row['Concepto']) raises TypeError on a cell that is
\* not text
TemporalSection ==
    /\ pc = "head"
    /\ IF \E k \in DOMAIN libro_unmatched :
             /\ libro_unmatched[k].Categoria.is_temporary
             /\ libro_unmatched[k].Concepto.t # "str"
       THEN /\ pc' = "error"
            /\ UNCHANGED <<running_balance, reconciliation_rows>>
       ELSE LET s1 == depositos_lines(libro_unmatched, running_balance)
                s2 == libro_group_lines(otras_temp_libro(libro_unmatched), 1, s1.bal)
                s3 == extracto_group_lines(temp_extracto(extracto_unmatched), 1,
                                           s2.bal, TRUE)
            IN  /\ reconciliation_rows' =
                     reconciliation_rows \o s1.rows \o s2.rows \o s3.rows
                /\ running_balance' = s3.bal
                /\ pc' = "temporal"
    /\ UNCHANGED <<libro_file, extracto_file, has_saldo, df_libro, df_extracto,
                   merged, libro_unmatched, extracto_unmatched, saldo_final_banco,
                   saldo_final_libro, matched_count, summary, call, ret>>

\* sections 4 and 5; row.get('Descripcion', '')[:80] raises TypeError on a
\* cell that is not text
PermanentSection ==
    /\ pc = "temporal"
    /\ IF \E k \in DOMAIN extracto_unmatched :
             /\ ~extracto_unmatched[k].Categoria.is_temporary
             /\ extracto_unmatched[k].Monto_Banco > 0
             /\ extracto_unmatched[k].Descripcion.t # "str"
       THEN /\ pc' = "error"
            /\ UNCHANGED <<running_balance, reconciliation_rows>>
       ELSE LET s4 == creditos_lines(extracto_unmatched, running_balance)
                s5 == debitos_lines(extracto_unmatched, s4.bal)
            IN  /\ reconciliation_rows' = reconciliation_rows \o s4.rows \o s5.rows
                /\ running_balance' = s5.bal
                /\ pc' = "permanent"
    /\ UNCHANGED <<libro_file, extracto_file, has_saldo, df_libro, df_extracto,
                   merged, libro_unmatched, extracto_unmatched, saldo_final_banco,
                   saldo_final_libro, matched_count, summary, call, ret>>

\* section 6, the placeholders and the final balance line
ChequesSection ==
    /\ pc = "permanent"
    /\ LET s6 == cheque_lines(cheques_pendientes(extracto_unmatched), running_balance)
       IN  /\ reconciliation_rows' =
                reconciliation_rows
                \o << Line("+", "Cheques omitidos o registrados de menos", "",
                           <<0>>, <<running_balance>>, "", {}),
                      Line("+", "Depósitos registrados de más", "",
                           <<0>>, <<running_balance>>, "", {}),
                      Heading("-", "Cheques pendientes") >>
                \o s6.rows
                \o << Line("-", "Cheques registrados de más", "",
                           <<0>>, <<s6.bal>>, "", {}),
                      Line("", "Saldo final Libro", "", <<>>, <<s6.bal>>, "", {}) >>
           /\ running_balance' = s6.bal
    /\ pc' = "statement"
    /\ UNCHANGED <<libro_file, extracto_file, has_saldo, df_libro, df_extracto,
                   merged, libro_unmatched, extracto_unmatched, saldo_final_banco,
                   saldo_final_libro, matched_count, summary, call, ret>>

\* merged['Matched'].sum(): the merged rows whose Matched is True
count_matched(m) == Cardinality({ k \in DOMAIN m : m[k].Matched })

CountMatched ==
    /\ pc = "statement"
    /\ matched_count' = count_matched(merged)
    /\ pc' = "counted"
    /\ UNCHANGED <<libro_file, extracto_file, has_saldo, df_libro, df_extracto,
                   merged, libro_unmatched, extracto_unmatched, saldo_final_banco,
                   saldo_final_libro, running_balance, reconciliation_rows,
                   summary, call, ret>>

MontosBanco(sel) == SumSeq([k \in DOMAIN sel |-> sel[k].Monto_Banco])

MontosLibro(sel) == SumSeq([k \in DOMAIN sel |-> sel[k].Monto_Libro])

\* the summary with the total difference taken as bank minus book
make_summary_banco_menos_libro(lu, eu, banco, libro, count) ==
    LET temp_e == SelectSeq(eu, LAMBDA r : r.Categoria.is_temporary)
        temp_l == SelectSeq(lu, LAMBDA r : r.Categoria.is_temporary)
        perm_e == SelectSeq(eu, LAMBDA r : ~r.Categoria.is_temporary)
    IN  [saldo_final_banco |-> banco,
         saldo_final_libro |-> libro,
         diferencia_total |-> banco - libro,
         items_coinciden |-> count,
         diferencias_temporales_count |-> Len(temp_l) + Len(temp_e),
         diferencias_permanentes_count |-> Len(perm_e),
         diferencias_temporales_monto |-> MontosBanco(temp_e) + MontosLibro(temp_l),
         diferencias_permanentes_monto |-> MontosBanco(perm_e)]

\* the summary with the temporal differences of the bank side only
make_summary_bank_temporal(lu, eu, banco, libro, count) ==
    LET temp_e == SelectSeq(eu, LAMBDA r : r.Categoria.is_temporary)
        perm_e == SelectSeq(eu, LAMBDA r : ~r.Categoria.is_temporary)
    IN  [saldo_final_banco |-> banco,
         saldo_final_libro |-> libro,
         diferencia_total |-> libro - banco,
         items_coinciden |-> count,
         diferencias_temporales_count |-> Len(temp_e),
         diferencias_permanentes_count |-> Len(perm_e),
         diferencias_temporales_monto |-> MontosBanco(temp_e),
         diferencias_permanentes_monto |-> MontosBanco(perm_e)]

make_summary(lu, eu, banco, libro, count) ==
    LET temp_e == SelectSeq(eu, LAMBDA r : r.Categoria.is_temporary)
        temp_l == SelectSeq(lu, LAMBDA r : r.Categoria.is_temporary)
        perm_e == SelectSeq(eu, LAMBDA r : ~r.Categoria.is_temporary)
    IN  [saldo_final_banco |-> banco,
         saldo_final_libro |-> libro,
         diferencia_total |-> libro - banco,
         items_coinciden |-> count,
         diferencias_temporales_count |-> Len(temp_l) + Len(temp_e),
         diferencias_permanentes_count |-> Len(perm_e),
         diferencias_temporales_monto |-> MontosBanco(temp_e) + MontosLibro(temp_l),
         diferencias_permanentes_monto |-> MontosBanco(perm_e)]

\* On a frame with no rows Series.apply returns an empty Series that is not
\* boolean, so frame[mask] selects columns (none) and ['Monto_Banco'] or
\* ['Monto_Libro'] raises KeyError.
Summarize ==
    /\ pc = "counted"
    /\ IF extracto_unmatched = <<>> \/ libro_unmatched = <<>>
       THEN /\ pc' = "error"
            /\ UNCHANGED summary
       ELSE /\ summary' = make_summary(libro_unmatched, extracto_unmatched,
                                       saldo_final_banco, saldo_final_libro,
                                       matched_count)
            /\ pc' = "done"
    /\ UNCHANGED <<libro_file, extracto_file, has_saldo, df_libro, df_extracto,
                   merged, libro_unmatched, extracto_unmatched, saldo_final_banco,
                   saldo_final_libro, running_balance, reconciliation_rows,
                   matched_count, call, ret>>

Next ==
    \/ LoadData
    \/ Match
    \/ CategorizeUnmatched
    \/ EndingBalances
    \/ StatementHead
    \/ TemporalSection
    \/ PermanentSection
    \/ ChequesSection
    \/ CountMatched
    \/ Summarize

Spec == Init /\ [][Next]_vars

-----------------------------------------------------------------------------
(* process_reconciliation called a second time on the same two sheets. *)

\* what a call leaves behind: how it ended, the partition with its
\* categories, and the aggregated amounts
Outcome ==
    [pc |-> pc, merged |-> merged, libro_unmatched |-> libro_unmatched,
     extracto_unmatched |-> extracto_unmatched,
     running_balance |-> running_balance,
     matched_count |-> matched_count, summary |-> summary]

\* the first call has returned or raised; its outcome is kept and the second
\* call starts, every local of the function fresh
CallAgain ==
    /\ pc \in {"done", "error"}
    /\ call = NoCall
    /\ ret = <<>>
    /\ ret' = <<Outcome>>
    /\ pc' = "start"
    /\ df_libro' = <<>>
    /\ df_extracto' = <<>>
    /\ merged' = <<>>
    /\ libro_unmatched' = <<>>
    /\ extracto_unmatched' = <<>>
    /\ saldo_final_banco' = 0
    /\ saldo_final_libro' = 0
    /\ running_balance' = 0
    /\ reconciliation_rows' = <<>>
    /\ matched_count' = 0
    /\ summary' = EmptySummary
    /\ UNCHANGED <<libro_file, extracto_file, has_saldo, call>>

NextTwice == Next \/ CallAgain

MaxLibroTwice == 2

MaxExtractoTwice == 1

InitTwice ==
    /\ libro_file \in SeqsUpTo(LibroPool, MaxLibroTwice)
    /\ extracto_file \in SeqsUpTo(ExtractoPool, MaxExtractoTwice)
    /\ has_saldo \in BOOLEAN
    /\ pc = "start"
    /\ df_libro = <<>>
    /\ df_extracto = <<>>
    /\ merged = <<>>
    /\ libro_unmatched = <<>>
    /\ extracto_unmatched = <<>>
    /\ saldo_final_banco = 0
    /\ saldo_final_libro = 0
    /\ running_balance = 0
    /\ reconciliation_rows = <<>>
    /\ matched_count = 0
    /\ summary = EmptySummary
    /\ call = NoCall
    /\ ret = <<>>

SpecTwice == InitTwice /\ [][NextTwice]_vars

-----------------------------------------------------------------------------
(* categorize_difference on its own: descriptions built from fragments. *)

Sources == {"libro", "extracto", "banco"}

Fragments ==
    { permanent_keywords[k][1] : k \in DOMAIN permanent_keywords }
    \cup { temporary_keywords[k][1] : k \in DOMAIN temporary_keywords }
    \cup { " ", "pago", "COMISION", "TRÁNSITO" }

RECURSIVE Descriptions(_)
Descriptions(n) ==
    IF n = 0 THEN {""}
    ELSE LET shorter == Descriptions(n - 1)
         IN  shorter \cup { d \o f : d \in shorter, f \in Fragments }

InitCat ==
    /\ call \in { [fn |-> "categorize_difference", row |-> cell, source |-> src] :
                    cell \in { Str(d) : d \in Descriptions(MaxFrag) } \cup {NaN},
                    src \in Sources }
    /\ ret = <<>>
    /\ libro_file = <<>>
    /\ extracto_file = <<>>
    /\ has_saldo = FALSE
    /\ pc = "idle"
    /\ df_libro = <<>>
    /\ df_extracto = <<>>
    /\ merged = <<>>
    /\ libro_unmatched = <<>>
    /\ extracto_unmatched = <<>>
    /\ saldo_final_banco = 0
    /\ saldo_final_libro = 0
    /\ running_balance = 0
    /\ reconciliation_rows = <<>>
    /\ matched_count = 0
    /\ summary = EmptySummary

CallCategorize ==
    /\ call.fn = "categorize_difference"
    /\ ret = <<>>
    /\ ret' = <<categorize_difference(call.row, call.source)>>
    /\ UNCHANGED <<call, pipeline_vars>>

NextCat == CallCategorize

SpecCat == InitCat /\ [][NextCat]_vars

-----------------------------------------------------------------------------
(* The functions called on their own: no run of the pipeline is under way. *)

PipelineIdle ==
    /\ libro_file = <<>>
    /\ extracto_file = <<>>
    /\ has_saldo = FALSE
    /\ pc = "idle"
    /\ df_libro = <<>>
    /\ df_extracto = <<>>
    /\ merged = <<>>
    /\ libro_unmatched = <<>>
    /\ extracto_unmatched = <<>>
    /\ saldo_final_banco = 0
    /\ saldo_final_libro = 0
    /\ running_balance = 0
    /\ reconciliation_rows = <<>>
    /\ matched_count = 0
    /\ summary = EmptySummary

(* process_reconciliation on sheets that lack columns. *)

InitColumns ==
    /\ call \in { [fn |-> "process_reconciliation",
                    row |-> [libro |-> l, extracto |-> e], source |-> ""] :
                    l \in Sheets(LibroHeaders), e \in Sheets(ExtractoHeaders) }
    /\ ret = <<>>
    /\ PipelineIdle

CallProcessColumns ==
    /\ call.fn = "process_reconciliation"
    /\ ret = <<>>
    /\ ret' = <<process_columns(call.row.libro, call.row.extracto)>>
    /\ UNCHANGED <<call, pipeline_vars>>

NextColumns == CallProcessColumns

SpecColumns == InitColumns /\ [][NextColumns]_vars

(* clean_amount on cells of every kind, the texts built from fragments. *)

MaxAmountFrag == 3

AmountFragments == {"1", "05", "00", ".", ",", "-", " ", "abc"}

RECURSIVE AmountTexts(_)
AmountTexts(n) ==
    IF n = 0 THEN {""}
    ELSE LET shorter == AmountTexts(n - 1)
         IN  shorter \cup { t \o f : t \in shorter, f \in AmountFragments }

AmountCells ==
    { Str(t) : t \in AmountTexts(MaxAmountFrag) }
    \cup { Str("1.050.000,00"), Str("-1.050,5"), Str("+7"), Str(" 12,50 "),
           Str("1,050.00"), Str("1,5,0"), NaN, Num(42, 0), Num(-105, 1), Num(1250, 2), Obj }

InitAmount ==
    /\ call \in { [fn |-> "clean_amount", row |-> cell, source |-> ""] :
                    cell \in AmountCells }
    /\ ret = <<>>
    /\ PipelineIdle

CallCleanAmount ==
    /\ call.fn = "clean_amount"
    /\ ret = <<>>
    /\ ret' = <<clean_amount(call.row)>>
    /\ UNCHANGED <<call, pipeline_vars>>

NextAmount == CallCleanAmount

SpecAmount == InitAmount /\ [][NextAmount]_vars

(* extract_check_numbers on cells of every kind, the texts built from
   fragments. *)

MaxCheckFrag == 3

CheckFragments == {"(12)", "(7)", "(", ")", "12", "a", " "}

RECURSIVE CheckTexts(_)
CheckTexts(n) ==
    IF n = 0 THEN {""}
    ELSE LET shorter == CheckTexts(n - 1)
         IN  shorter \cup { t \o f : t \in shorter, f \in CheckFragments }

CheckCells ==
    { Str(t) : t \in CheckTexts(MaxCheckFrag) }
    \cup { Str("Cheques de terceros (36142161)(77)"), Str("no parens"),
           Str("((5))"), Str("(1 2)"), Str("()(a)(1 2)"), NaN, Num(123, 0), Obj }

InitExtract ==
    /\ call \in { [fn |-> "extract_check_numbers", row |-> cell, source |-> ""] :
                    cell \in CheckCells }
    /\ ret = <<>>
    /\ PipelineIdle

CallExtract ==
    /\ call.fn = "extract_check_numbers"
    /\ ret = <<>>
    /\ ret' = <<extract_check_numbers(call.row)>>
    /\ UNCHANGED <<call, pipeline_vars>>

NextExtract == CallExtract

SpecExtract == InitExtract /\ [][NextExtract]_vars

-----------------------------------------------------------------------------
(* Properties. *)

Categorized == pc \in {"categorized", "balances", "head", "temporal", "permanent",
                       "statement", "counted", "done"}

StatementBuilt == pc \in {"statement", "counted", "done"}

LibroIsMatched(id) ==
    \E k \in DOMAIN merged : merged[k]._merge = "both" /\ merged[k].Libro_ID = <<id>>

BancoIsMatched(id) ==
    \E k \in DOMAIN merged : merged[k]._merge = "both" /\ merged[k].Banco_ID = <<id>>

LibroUnmatchedAs(id, category) ==
    \E k \in DOMAIN libro_unmatched :
        /\ libro_unmatched[k].Libro_ID = id
        /\ libro_unmatched[k].Categoria.category = category

BancoUnmatchedAs(id, category) ==
    \E k \in DOMAIN extracto_unmatched :
        /\ extracto_unmatched[k].Banco_ID = id
        /\ extracto_unmatched[k].Categoria.category = category

ExactlyOne(a, b, c) == (a /\ ~b /\ ~c) \/ (~a /\ b /\ ~c) \/ (~a /\ ~b /\ c)

\* C1: after process_reconciliation every book entry and every bank entry is
\* in exactly one of the classes matched, unmatched Temporal, unmatched
\* Permanente; every unmatched row carries one of the two categories and is
\* listed once.
C1_Partition ==
    pc = "done" =>
      /\ \A k \in DOMAIN df_libro :
           ExactlyOne(LibroIsMatched(df_libro[k].Libro_ID),
                      LibroUnmatchedAs(df_libro[k].Libro_ID, "Temporal"),
                      LibroUnmatchedAs(df_libro[k].Libro_ID, "Permanente"))
      /\ \A k \in DOMAIN df_extracto :
           ExactlyOne(BancoIsMatched(df_extracto[k].Banco_ID),
                      BancoUnmatchedAs(df_extracto[k].Banco_ID, "Temporal"),
                      BancoUnmatchedAs(df_extracto[k].Banco_ID, "Permanente"))
      /\ \A j, k \in DOMAIN libro_unmatched :
           libro_unmatched[j].Libro_ID = libro_unmatched[k].Libro_ID => j = k
      /\ \A j, k \in DOMAIN extracto_unmatched :
           extracto_unmatched[j].Banco_ID = extracto_unmatched[k].Banco_ID => j = k

C1_Witness ==
    /\ pc = "done"
    /\ \E k \in DOMAIN df_libro : LibroIsMatched(df_libro[k].Libro_ID)
    /\ \E k \in DOMAIN df_libro : LibroUnmatchedAs(df_libro[k].Libro_ID, "Temporal")
    /\ \E k \in DOMAIN df_extracto : BancoIsMatched(df_extracto[k].Banco_ID)
    /\ \E k \in DOMAIN df_extracto : BancoUnmatchedAs(df_extracto[k].Banco_ID, "Permanente")

\* C2: a book entry whose description yields no identifier is never matched,
\* whatever the bank rows are, and is listed among the unmatched book rows.
C2_NoIdentifierNeverMatched ==
    pc = "done" =>
      \A k \in DOMAIN df_libro :
        df_libro[k].Cheques_Extraidos = <<>> =>
          /\ ~LibroIsMatched(df_libro[k].Libro_ID)
          /\ \E j \in DOMAIN libro_unmatched :
               libro_unmatched[j].Libro_ID = df_libro[k].Libro_ID

HasVoucher(b) == b.Comprobante.t = "str"

\* C3: a book entry is matched iff one of its identifiers equals the voucher
\* id of some bank entry, and a bank entry is matched iff it has a voucher id
\* that equals an identifier of some book entry.
C3_MatchedIffSharedIdentifier ==
    pc = "done" =>
      /\ \A k \in DOMAIN df_libro :
           LibroIsMatched(df_libro[k].Libro_ID) <=>
             \E b \in DOMAIN df_extracto :
               /\ HasVoucher(df_extracto[b])
               /\ \E i \in DOMAIN df_libro[k].Cheques_Extraidos :
                    df_libro[k].Cheques_Extraidos[i]
                      = Strip(df_extracto[b].Comprobante.s)
      /\ \A b \in DOMAIN df_extracto :
           BancoIsMatched(df_extracto[b].Banco_ID) <=>
             /\ HasVoucher(df_extracto[b])
             /\ \E k \in DOMAIN df_libro :
                  \E i \in DOMAIN df_libro[k].Cheques_Extraidos :
                    df_libro[k].Cheques_Extraidos[i]
                      = Strip(df_extracto[b].Comprobante.s)

JoinedOn(libro_id, banco_id, key) ==
    \E k \in DOMAIN merged :
        /\ merged[k]._merge = "both"
        /\ merged[k].Libro_ID = <<libro_id>>
        /\ merged[k].Banco_ID = <<banco_id>>
        /\ merged[k].check_match_id = key

\* C4: a book identifier and a bank voucher id are joined iff they are the
\* same text after stripping surrounding whitespace; numerically equal but
\* textually different identifiers are not joined.
C4_TrimmedTextComparison ==
    Categorized =>
      \A k \in DOMAIN df_libro : \A b \in DOMAIN df_extracto :
        \A i \in DOMAIN df_libro[k].Cheques_Extraidos :
          LET x == df_libro[k].Cheques_Extraidos[i]
          IN  HasVoucher(df_extracto[b]) =>
                (JoinedOn(df_libro[k].Libro_ID, df_extracto[b].Banco_ID, x)
                   <=> x = Strip(df_extracto[b].Comprobante.s))

C4_Witness ==
    /\ pc = "done"
    /\ \E k \in DOMAIN df_libro : \E b \in DOMAIN df_extracto :
         /\ HasVoucher(df_extracto[b])
         /\ df_extracto[b].Comprobante.s = " 123 "
         /\ df_libro[k].Cheques_Extraidos = <<"123">>
         /\ JoinedOn(df_libro[k].Libro_ID, df_extracto[b].Banco_ID, "123")
    /\ \E k \in DOMAIN df_libro : \E b \in DOMAIN df_extracto :
         /\ HasVoucher(df_extracto[b])
         /\ df_extracto[b].Comprobante.s = " 123 "
         /\ df_libro[k].Cheques_Extraidos = <<"0123">>
         /\ ~LibroIsMatched(df_libro[k].Libro_ID)

HasKeyword(table, cell) ==
    LET descripcion == Lower(AsStr(cell))
    IN  \E k \in DOMAIN table : Contains(table[k][1], descripcion)

\* C5: a description holding a permanent keyword and a temporal keyword is
\* categorized Permanente, for either source.
C5_PermanentFirst ==
    (ret # <<>> /\ HasKeyword(permanent_keywords, call.row)
                /\ HasKeyword(temporary_keywords, call.row))
      => ret[1].category = "Permanente"

C5_Witness ==
    /\ ret # <<>>
    /\ call.source = "libro"
    /\ HasKeyword(permanent_keywords, call.row)
    /\ HasKeyword(temporary_keywords, call.row)
    /\ ret[1].category = "Permanente"

\* C6: with no keyword of either table in the lower-cased description the
\* result is Temporal / 'Depósitos en tránsito' for source 'libro' and
\* Permanente / 'Notas de débito/crédito omitidas' for any other source.
C6_SourceDefault ==
    (ret # <<>> /\ ~HasKeyword(permanent_keywords, call.row)
                /\ ~HasKeyword(temporary_keywords, call.row))
      => IF call.source = "libro"
         THEN ret[1].category = "Temporal"
              /\ ret[1].subcategory = "Depósitos en tránsito"
         ELSE ret[1].category = "Permanente"
              /\ ret[1].subcategory = "Notas de débito/crédito omitidas"

C6_Witness ==
    /\ ret # <<>>
    /\ call.source = "extracto"
    /\ call.row = Str("pago")
    /\ ret[1].subcategory = "Notas de débito/crédito omitidas"

\* the sign a line stands under: that of the nearest line at or above it
\* whose Signo cell is filled
RECURSIVE SignAt(_, _)
SignAt(rows, k) ==
    IF k = 0 THEN "+"
    ELSE IF rows[k].Signo # "" THEN rows[k].Signo
         ELSE SignAt(rows, k - 1)

SignedMonto(rows, k) ==
    IF rows[k].Monto = <<>> THEN 0
    ELSE IF SignAt(rows, k) = "-" THEN 0 - rows[k].Monto[1]
         ELSE rows[k].Monto[1]

\* the running balance shown by the nearest line above k that shows one
RECURSIVE SaldoBefore(_, _)
SaldoBefore(rows, k) ==
    IF k <= 1 THEN <<>>
    ELSE IF rows[k - 1].Saldo # <<>> THEN rows[k - 1].Saldo
         ELSE SaldoBefore(rows, k - 1)

\* C7: every statement line that carries an amount shows the previous running
\* balance plus its signed amount (minus the amount under the '-' heading),
\* and the final running balance is the bank ending balance plus the signed
\* sum of all line amounts.
C7_RunningBalance ==
    /\ \A k \in DOMAIN reconciliation_rows :
         reconciliation_rows[k].Monto # <<>> =>
           /\ SaldoBefore(reconciliation_rows, k) # <<>>
           /\ reconciliation_rows[k].Saldo =
                << SaldoBefore(reconciliation_rows, k)[1]
                   + SignedMonto(reconciliation_rows, k) >>
    /\ StatementBuilt =>
         /\ running_balance =
              saldo_final_banco
              + SumSeq([k \in DOMAIN reconciliation_rows |->
                          SignedMonto(reconciliation_rows, k)])
         /\ reconciliation_rows[Len(reconciliation_rows)].Saldo = <<running_balance>>

C7_Witness ==
    /\ pc = "done"
    /\ \E k \in DOMAIN reconciliation_rows :
         /\ reconciliation_rows[k].Monto # <<>>
         /\ SignAt(reconciliation_rows, k) = "-"
         /\ reconciliation_rows[k].Monto[1] > 0
    /\ \E k \in DOMAIN reconciliation_rows :
         /\ reconciliation_rows[k].lado = "libro"
         /\ reconciliation_rows[k].Monto # <<0>>
    /\ running_balance # saldo_final_banco

LinesOf(lado, id) ==
    { k \in DOMAIN reconciliation_rows :
        reconciliation_rows[k].lado = lado /\ id \in reconciliation_rows[k].ids }

\* C8: the amount of an unmatched bank entry is applied to the running
\* balance at most once across all sections of the statement.
C8_NoDoubleCount ==
    pc = "done" =>
      \A b \in DOMAIN extracto_unmatched :
        Cardinality(LinesOf("banco", extracto_unmatched[b].Banco_ID)) <= 1

\* C9: every unmatched entry with a non-zero amount, of either side and
\* either category, has its amount applied in some statement line.
C9_NoDrop ==
    pc = "done" =>
      /\ \A k \in DOMAIN libro_unmatched :
           libro_unmatched[k].Monto_Libro # 0 =>
             LinesOf("libro", libro_unmatched[k].Libro_ID) # {}
      /\ \A b \in DOMAIN extracto_unmatched :
           extracto_unmatched[b].Monto_Banco # 0 =>
             LinesOf("banco", extracto_unmatched[b].Banco_ID) # {}

TwoIdentifierScenario ==
    /\ Len(libro_file) = 1
    /\ Len(extract_check_numbers(libro_file[1].Concepto)) = 2
    /\ Len(extracto_file) = 2
    /\ \A i \in 1..2 :
         /\ extracto_file[i].Comprobante.t = "str"
         /\ extracto_file[i].Comprobante.s
              = extract_check_numbers(libro_file[1].Concepto)[i]

\* C10: with one book entry carrying two identifiers and exactly the two bank
\* entries bearing them, the run reports everything matched, nothing
\* unmatched, zero differences and items_coinciden = 1.
C10_TwoIdentifiersCountOnce ==
    TwoIdentifierScenario =>
      /\ pc = "counted" =>
           /\ libro_unmatched = <<>>
           /\ extracto_unmatched = <<>>
           /\ LibroIsMatched(0) /\ BancoIsMatched(0) /\ BancoIsMatched(1)
           /\ matched_count = 1
      /\ pc # "error"
      /\ pc = "done" =>
           /\ summary.items_coinciden = 1
           /\ summary.diferencias_temporales_count = 0
           /\ summary.diferencias_permanentes_count = 0
           /\ summary.diferencias_temporales_monto = 0
           /\ summary.diferencias_permanentes_monto = 0

UnmatchedLibro(category) ==
    SelectSeq(libro_unmatched, LAMBDA r : r.Categoria.category = category)

UnmatchedBanco(category) ==
    SelectSeq(extracto_unmatched, LAMBDA r : r.Categoria.category = category)

\* C11: the summary's permanent count and amount cover every unmatched
\* Permanente entry of the book side and of the bank side, the amount being
\* the sum of the entries' own signed amounts.
C11_PermanentBothSides ==
    pc = "done" =>
      /\ summary.diferencias_permanentes_count
           = Len(UnmatchedLibro("Permanente")) + Len(UnmatchedBanco("Permanente"))
      /\ summary.diferencias_permanentes_monto
           = MontosLibro(UnmatchedLibro("Permanente"))
             + MontosBanco(UnmatchedBanco("Permanente"))

\* C12: the summary's temporal count and amount cover every unmatched
\* Temporal entry of the book side and of the bank side, the amount being the
\* sum of the entries' own signed amounts.
C12_TemporalBothSides ==
    pc = "done" =>
      /\ summary.diferencias_temporales_count
           = Len(UnmatchedLibro("Temporal")) + Len(UnmatchedBanco("Temporal"))
      /\ summary.diferencias_temporales_monto
           = MontosLibro(UnmatchedLibro("Temporal"))
             + MontosBanco(UnmatchedBanco("Temporal"))

C12_Witness ==
    /\ pc = "done"
    /\ \E k \in DOMAIN libro_unmatched :
         /\ libro_unmatched[k].Categoria.category = "Temporal"
         /\ extract_check_numbers(libro_unmatched[k].Concepto) = <<>>
         /\ libro_unmatched[k].Monto_Libro = 500
    /\ UnmatchedBanco("Temporal") # <<>>
    /\ summary.diferencias_temporales_monto
         = 500 + MontosBanco(UnmatchedBanco("Temporal"))

MalformedDescription ==
    \/ \E k \in DOMAIN libro_file : libro_file[k].Concepto.t # "str"
    \/ \E k \in DOMAIN extracto_file : extracto_file[k].Descripcion.t # "str"

\* C13: a description cell that is missing or not text never aborts the run:
\* the book entry gets an empty identifier list, and the steps that write the
\* description into the statement complete instead of raising.
C13_MalformedNeverAborts ==
    [][MalformedDescription =>
         /\ pc' = "merged" =>
               \A k \in DOMAIN df_libro' :
                   df_libro'[k].Concepto.t # "str" =>
                       df_libro'[k].Cheques_Extraidos = <<>>
         /\ pc \in {"head", "temporal"} => pc' # "error"]_vars

\* C14: when the book sheet lacks its credit-amount column 'Ingreso', the run
\* fails before any report is produced and the message of the failure lists
\* the columns that the sheet does have.
C14_MissingColumnListsDetected ==
    (call.fn = "process_reconciliation" /\ ret # <<>>
       /\ ~HasColumn(call.row.libro, "Ingreso")) =>
      /\ ret[1].raised # ""
      /\ ~ret[1].report
      /\ \A k \in DOMAIN call.row.libro :
             Contains(call.row.libro[k], ret[1].message)

\* the text with every '.' deleted and every ',' turned into '.'
RECURSIVE Rewritten(_)
Rewritten(text) ==
    IF Len(text) = 0 THEN ""
    ELSE LET last == Char(text, Len(text))
         IN  Rewritten(SubSeq(text, 1, Len(text) - 1))
             \o (IF last = "." THEN "" ELSE IF last = "," THEN "." ELSE last)

RECURSIVE Pow10(_)
Pow10(n) == IF n = 0 THEN 1 ELSE 10 * Pow10(n - 1)

Zero == [mant |-> 0, scale |-> 0]

\* C15: clean_amount never raises; it returns 0.0 for a null cell, the value
\* itself for a number, and for a text the number that parses once every '.'
\* is deleted and every ',' replaced by '.', or 0.0 when that does not parse;
\* '1.050.000,00' gives 1050000.00, 'abc' gives 0.0 and 42 gives 42.0.
C15_CleanAmount ==
    (call.fn = "clean_amount" /\ ret # <<>>) =>
      /\ ret[1].raised = ""
      /\ call.row.t = "nan" => ret[1].value = Zero
      /\ call.row.t = "num" =>
            ret[1].value.mant * Pow10(call.row.scale)
              = call.row.mant * Pow10(ret[1].value.scale)
      /\ call.row.t = "str" =>
            LET parsed == python_float(Rewritten(call.row.s))
            IN  ret[1].value = IF parsed.raised = "" THEN parsed.value ELSE Zero
      /\ call.row = Str("1.050.000,00") => ret[1].value = [mant |-> 1050000, scale |-> 0]
      /\ call.row = Str(" 12,50 ") => ret[1].value = [mant |-> 125, scale |-> 1]
      /\ call.row = Str("abc") => ret[1].value = Zero
      /\ call.row = Str("1,050.00") => ret[1].value = [mant |-> 105, scale |-> 2]
      /\ call.row = Str("1,5,0") => ret[1].value = Zero
      /\ call.row = Num(42, 0) => ret[1].value = [mant |-> 42, scale |-> 0]

C15_Witness ==
    /\ call.fn = "clean_amount"
    /\ call.row = Str("1.050.000,00")
    /\ ret # <<>>
    /\ ret[1].raised = ""
    /\ ret[1].value.mant = 1050000

\* j closes at i a parenthesized group that holds digits and nothing else
ClosesGroup(text, i, j) ==
    /\ Char(text, i) = "("
    /\ Char(text, j) = ")"
    /\ j > i + 1
    /\ \A m \in (i + 1)..(j - 1) : Char(text, m) \in Digits

GroupStarts(text) ==
    { i \in 1..Len(text) : \E j \in 1..Len(text) : ClosesGroup(text, i, j) }

GroupAt(text, i) ==
    LET j == CHOOSE j \in 1..Len(text) : ClosesGroup(text, i, j)
    IN  SubSeq(text, i + 1, j - 1)

NthStart(text, n) ==
    CHOOSE i \in GroupStarts(text) :
        Cardinality({ g \in GroupStarts(text) : g < i }) = n - 1

\* C16: extract_check_numbers returns, from left to right and keeping
\* repetitions, exactly the digit-only strings directly enclosed in a pair of
\* parentheses; a group holding a non-digit or nothing gives no identifier,
\* and a cell that is not text gives the empty list.
C16_ExtractCheckNumbers ==
    (call.fn = "extract_check_numbers" /\ ret # <<>>) =>
      /\ call.row.t # "str" => ret[1] = <<>>
      /\ call.row.t = "str" =>
            /\ Len(ret[1]) = Cardinality(GroupStarts(call.row.s))
            /\ \A n \in 1..Len(ret[1]) :
                   ret[1][n] = GroupAt(call.row.s, NthStart(call.row.s, n))
      /\ call.row = Str("Cheques de terceros (36142161)(77)") =>
            ret[1] = <<"36142161", "77">>
      /\ call.row = Str("no parens") => ret[1] = <<>>
      /\ call.row = Str("(12)(12)") => ret[1] = <<"12", "12">>
      /\ call.row = Str("()(a)(1 2)") \/ call.row = Str("(1 2)") => ret[1] = <<>>

C16_Witness ==
    /\ call.fn = "extract_check_numbers"
    /\ call.row = Str("(12)(7)(12)")
    /\ ret = << <<"12", "7", "12">> >>

\* C17: after a completed run the statement's last line carries the final
\* running balance, the summary carries the book ending balance computed as
\* the sum of all book net amounts, and the summary reports the residual:
\* the final running balance minus the book ending balance.
C17_ResidualSurfaced ==
    pc = "done" =>
      /\ reconciliation_rows[Len(reconciliation_rows)].Saldo = <<running_balance>>
      /\ summary.saldo_final_libro = MontosLibro(df_libro)
      /\ summary.diferencia_total = running_balance - summary.saldo_final_libro

\* keyword k of the table is the first one, in the table's order, that the
\* lower-cased description holds
IsFirstFound(table, k, descripcion) ==
    /\ Contains(table[k][1], descripcion)
    /\ \A j \in 1..(k - 1) : ~Contains(table[j][1], descripcion)

\* C18: within each keyword table the first keyword, in insertion order, that
\* occurs in the lower-cased description decides the subcategory: the
\* permanent table first, the temporal table when no permanent keyword
\* occurs; 'comision' together with 'rechazo' gives 'Comisiones'.
C18_FirstKeywordWins ==
    ret # <<>> =>
      LET descripcion == Lower(AsStr(call.row))
          no_permanent == \A k \in DOMAIN permanent_keywords :
                              ~Contains(permanent_keywords[k][1], descripcion)
      IN  /\ \A k \in DOMAIN permanent_keywords :
                 IsFirstFound(permanent_keywords, k, descripcion) =>
                     ret[1].subcategory = permanent_keywords[k][2]
          /\ \A k \in DOMAIN temporary_keywords :
                 (no_permanent /\ IsFirstFound(temporary_keywords, k, descripcion)) =>
                     ret[1].subcategory = temporary_keywords[k][2]
          /\ (Contains("comision", descripcion) /\ Contains("rechazo", descripcion)) =>
                 ret[1].subcategory = "Comisiones"

C18_Witness ==
    /\ ret # <<>>
    /\ call.row = Str("rechazocomision")
    /\ ret[1].subcategory = "Comisiones"

\* C19: every result of categorize_difference has category Permanente or
\* Temporal, requires_accounting_entry exactly when it is Permanente,
\* is_temporary exactly when it is Temporal, and exactly one flag true.
C19_FlagsFollowCategory ==
    ret # <<>> =>
      /\ ret[1].category \in {"Permanente", "Temporal"}
      /\ ret[1].requires_accounting_entry <=> ret[1].category = "Permanente"
      /\ ret[1].is_temporary <=> ret[1].category = "Temporal"
      /\ ret[1].requires_accounting_entry # ret[1].is_temporary

C19_Witness ==
    /\ ret # <<>>
    /\ call.source = "extracto"
    /\ ret[1].category = "Temporal"
    /\ ret[1].is_temporary
    /\ ~ret[1].requires_accounting_entry

\* the nearest line at or above k that carries a principal concept
RECURSIVE HeadingAbove(_, _)
HeadingAbove(rows, k) ==
    IF k <= 1 \/ rows[k].Principal # "" THEN k ELSE HeadingAbove(rows, k - 1)

\* the place in the claimed order of the block that line k belongs to: 0 the
\* starting balance, 1 book deposits in transit, 2 other temporal book items,
\* 3 temporal bank items, 4 permanent credits, 5 permanent debits, 6 and 7
\* the two placeholders, 8 the pending checks, 9 the last placeholder, 10 the
\* final balance
SectionOf(rows, k) ==
    LET h == HeadingAbove(rows, k)
        principal == rows[h].Principal
    IN  CASE principal \in {"Conciliación Bancaria", "Saldo final Banco"} -> 0
          [] principal = "Notas de crédito omitidas por la empresa" -> 4
          [] principal = "Notas de débito omitidas por la empresa" -> 5
          [] principal = "Cheques omitidos o registrados de menos" -> 6
          [] principal = "Depósitos registrados de más" -> 7
          [] principal = "Cheques pendientes" -> 8
          [] principal = "Cheques registrados de más" -> 9
          [] principal = "Saldo final Libro" -> 10
          [] OTHER -> IF h < Len(rows) /\ rows[h + 1].lado = "libro"
                      THEN (IF principal = "Depósitos en tránsito" THEN 1 ELSE 2)
                      ELSE 3

LibroEntry(id) ==
    libro_unmatched[CHOOSE k \in DOMAIN libro_unmatched :
                        libro_unmatched[k].Libro_ID = id]

BancoEntry(id) ==
    extracto_unmatched[CHOOSE k \in DOMAIN extracto_unmatched :
                           extracto_unmatched[k].Banco_ID = id]

\* the entries that line k stands for are entries of the block it is in
ItemFits(rows, k, section) ==
    LET principal == rows[HeadingAbove(rows, k)].Principal
    IN  \A id \in rows[k].ids :
          CASE section \in {1, 2} ->
                 /\ rows[k].lado = "libro"
                 /\ LibroEntry(id).Categoria.category = "Temporal"
                 /\ LibroEntry(id).Categoria.subcategory = principal
            [] section = 3 ->
                 /\ rows[k].lado = "banco"
                 /\ BancoEntry(id).Categoria.category = "Temporal"
                 /\ BancoEntry(id).Categoria.subcategory = principal
            [] section = 4 ->
                 /\ rows[k].lado = "banco"
                 /\ BancoEntry(id).Categoria.category = "Permanente"
                 /\ BancoEntry(id).Monto_Banco > 0
            [] section = 5 ->
                 /\ rows[k].lado = "banco"
                 /\ BancoEntry(id).Categoria.category = "Permanente"
                 /\ BancoEntry(id).Categoria.subcategory = rows[k].CONCEPTO
                 /\ BancoEntry(id).Monto_Banco < 0
            [] section = 8 ->
                 /\ rows[k].lado = "banco"
                 /\ BancoEntry(id).check_match_id \notin {"", "nan"}
                 /\ BancoEntry(id).Monto_Banco < 0
            [] OTHER -> FALSE

BalancesKnown == pc \in {"balances", "head", "temporal", "permanent", "statement",
                         "counted", "done"}

NetoBanco == SumSeq([k \in DOMAIN extracto_file |->
                        extracto_file[k].Creditos - extracto_file[k].Debitos])

NetoLibro == SumSeq([k \in DOMAIN libro_file |->
                        libro_file[k].Ingreso - libro_file[k].Egreso])

\* C21: the bank ending balance, with which the statement starts, is the
\* balance stated on the last bank row when the bank sheet has a 'Saldo'
\* column and the sum of all bank net amounts otherwise; the book ending
\* balance is the sum of all book net amounts; diferencia_total is the book
\* ending balance minus the bank ending balance.
C21_EndingBalances ==
    /\ BalancesKnown =>
         /\ saldo_final_banco = (IF has_saldo
                                 THEN extracto_file[Len(extracto_file)].Saldo
                                 ELSE NetoBanco)
         /\ saldo_final_libro = NetoLibro
    /\ StatementBuilt =>
         /\ reconciliation_rows[3].Principal = "Saldo final Banco"
         /\ reconciliation_rows[3].Saldo = <<saldo_final_banco>>
    /\ pc = "done" =>
         /\ summary.saldo_final_banco = saldo_final_banco
         /\ summary.saldo_final_libro = saldo_final_libro
         /\ summary.diferencia_total = NetoLibro - saldo_final_banco

C21_Witness ==
    /\ pc = "done"
    /\ has_saldo
    /\ Len(extracto_file) > 1
    /\ saldo_final_banco # NetoBanco
    /\ summary.diferencia_total > 0
    /\ summary.diferencia_total # saldo_final_libro

\* the bank entries, in row order, that are unmatched, bear a voucher id and
\* have a negative net amount
ChequesEsperados ==
    SelectSeq(df_extracto,
              LAMBDA r : /\ ~BancoIsMatched(r.Banco_ID)
                         /\ r.Comprobante.t = "str"
                         /\ Strip(r.Comprobante.s) # ""
                         /\ r.Monto_Banco < 0)

ChequesHeading ==
    CHOOSE h \in DOMAIN reconciliation_rows :
        reconciliation_rows[h].Principal = "Cheques pendientes"

\* C22: the itemized pending-check lines are exactly the unmatched bank
\* entries that bear a voucher id and have a negative net amount, one line
\* per entry in bank row order, and each line lowers the running balance by
\* the absolute value of its entry's amount.
C22_PendingChecks ==
    StatementBuilt =>
      LET rows == reconciliation_rows
          h == ChequesHeading
          n == Len(ChequesEsperados)
      IN  /\ rows[h + n + 1].Principal = "Cheques registrados de más"
          /\ \A i \in 1..n :
                 /\ rows[h + i].lado = "banco"
                 /\ rows[h + i].ids = {ChequesEsperados[i].Banco_ID}
                 /\ rows[h + i].Monto = <<Abs(ChequesEsperados[i].Monto_Banco)>>
                 /\ rows[h + i].Saldo =
                      << SaldoBefore(rows, h + i)[1]
                         - Abs(ChequesEsperados[i].Monto_Banco) >>

C22_Witness ==
    /\ pc = "done"
    /\ Len(ChequesEsperados) = 2
    /\ reconciliation_rows[ChequesHeading + 1].ids = {ChequesEsperados[1].Banco_ID}
    /\ reconciliation_rows[ChequesHeading + 2].ids = {ChequesEsperados[2].Banco_ID}
    /\ ChequesEsperados[1].Monto_Banco # ChequesEsperados[2].Monto_Banco

\* the unmatched bank entries categorized Permanente, by sign of the amount
DebitosPermanentes ==
    SelectSeq(extracto_unmatched,
              LAMBDA r : r.Categoria.category = "Permanente" /\ r.Monto_Banco < 0)

CreditosPermanentes ==
    SelectSeq(extracto_unmatched,
              LAMBDA r : r.Categoria.category = "Permanente" /\ r.Monto_Banco > 0)

ItemLines(section) ==
    { k \in DOMAIN reconciliation_rows :
        /\ reconciliation_rows[k].ids # {}
        /\ SectionOf(reconciliation_rows, k) = section }

\* C23: the unmatched Permanente bank debits give exactly one statement line
\* per distinct subcategory, carrying the sum of the group's amounts, and
\* the unmatched Permanente bank credits give one line per entry.
C23_DebitsAggregated ==
    StatementBuilt =>
      LET rows == reconciliation_rows
          subcategories == { DebitosPermanentes[k].Categoria.subcategory :
                               k \in DOMAIN DebitosPermanentes }
      IN  /\ Cardinality(ItemLines(5)) = Cardinality(subcategories)
          /\ \A sub \in subcategories :
                 LET group == SelectSeq(DebitosPermanentes,
                                        LAMBDA r : r.Categoria.subcategory = sub)
                 IN  \E k \in ItemLines(5) :
                        /\ rows[k].CONCEPTO = sub
                        /\ rows[k].ids = { group[j].Banco_ID : j \in DOMAIN group }
                        /\ rows[k].Monto = <<MontosBanco(group)>>
          /\ Cardinality(ItemLines(4)) = Len(CreditosPermanentes)
          /\ \A j \in DOMAIN CreditosPermanentes :
                 \E k \in ItemLines(4) :
                    /\ rows[k].ids = {CreditosPermanentes[j].Banco_ID}
                    /\ rows[k].Monto = <<CreditosPermanentes[j].Monto_Banco>>

C23_Witness ==
    /\ pc = "done"
    /\ Len(DebitosPermanentes) = 2
    /\ Cardinality(ItemLines(5)) = 1
    /\ \E k \in ItemLines(5) :
         /\ Cardinality(reconciliation_rows[k].ids) = 2
         /\ reconciliation_rows[k].Monto = <<MontosBanco(DebitosPermanentes)>>

\* the book sheet has every column and the bank sheet lacks nothing but
\* optional columns: voucher id, running balance, credits, debits
OnlyOptionalMissing ==
    /\ call.fn = "process_reconciliation"
    /\ call.row.libro = LibroHeaders
    /\ HasColumn(call.row.extracto, "Fecha")
    /\ HasColumn(call.row.extracto, "Descripción")

\* C24: when the bank sheet lacks an optional column (the voucher id, the
\* running balance, the credits or the debits) loading and reconciliation
\* still complete, the amount columns being filled from what is there.
C24_OptionalBankColumns ==
    (OnlyOptionalMissing /\ ret # <<>>) =>
      /\ ret[1].raised = ""
      /\ ret[1].report
      /\ HasColumn(ret[1].extracto, "Monto_Banco")

ChequesItemizados ==
    SumSeq([k \in DOMAIN reconciliation_rows |->
               IF reconciliation_rows[k].ids # {}
                  /\ SectionOf(reconciliation_rows, k) = 8
               THEN reconciliation_rows[k].Monto[1]
               ELSE 0])

\* C26: in every completed run the statement's final running balance equals
\* saldo_final_banco + diferencias_temporales_monto
\* + diferencias_permanentes_monto minus the sum of the absolute amounts of
\* the itemized pending checks.
C26_WalkEqualsSummary ==
    pc = "done" =>
      /\ reconciliation_rows[Len(reconciliation_rows)].Saldo = <<running_balance>>
      /\ running_balance
           = summary.saldo_final_banco
             + summary.diferencias_temporales_monto
             + summary.diferencias_permanentes_monto
             - ChequesItemizados

C26_Witness ==
    /\ pc = "done"
    /\ UnmatchedLibro("Temporal") # <<>>
    /\ UnmatchedBanco("Temporal") # <<>>
    /\ summary.diferencias_permanentes_monto < 0
    /\ ChequesItemizados > 0
    /\ running_balance # summary.saldo_final_banco
                          + summary.diferencias_temporales_monto
                          + summary.diferencias_permanentes_monto

====
